---- MODULE Spec2Model ----
(***************************************************************************)
(* Model of the ease-curve library and its animation scheduler             *)
(* (src/easing.ts, namespaces ease.formula, ease.util, ease.curves and     *)
(* ease.animation; src/unnamed/part_000 holds the same curve library under *)
(* the namespace "easing").                                                *)
(*                                                                         *)
(* The scheduler's numbers are exact rationals <<numerator, denominator>>:  *)
(* its clock, durations and values make every quotient dyadic, so the      *)
(* doubles of the program carry the same values exactly.  The curve        *)
(* library is also evaluated on doubles, rounded as IEEE 754 rounds.       *)
(*                                                                         *)
(* User callbacks are modelled as scripts: the sequence of calls to        *)
(* animate / cancel that the callback makes when it is invoked.            *)
(***************************************************************************)
EXTENDS Integers, Sequences, FiniteSets, TLC

VARIABLES
    now,          \* control.millis()
    animations,   \* ease.animation.animations: name -> Animation (NoAnim: no property)
    keys,         \* property order of `animations` (Object.keys order)
    nextId,       \* identity of the next Animation object constructed
    pc,           \* position of the program: idle, loop, callback, onEnd, crashed
    names,        \* game.onUpdate: the part of animNames the for-loop has not visited
    frame,        \* Animation.update: this, currMs and the outcome of the duration test
    script,       \* the calls the running callback / onEnd handler has still to make
    delivered,    \* history: the arguments and result of the curve call of this update
    ended,        \* history: per Animation object, how often its onEnd was invoked
    finals,       \* history: RepeatMode.None objects whose progress 1 value was delivered
    cancelled,    \* history: objects removed by cancel() called between two frames
    doneNames,    \* history, during a frame: names whose RepeatMode.None animation completed in it
    tickFirstId,  \* history, during a frame: nextId when its animNames were taken
    advanced,     \* history, during a frame: per object, how often update() ran on it
    stopped,      \* history: objects removed by cancel() called in a callback or handler
    probe         \* a curve evaluation: the arguments drawn and the values computed

vars == <<now, animations, keys, nextId, pc, names, frame, script,
          delivered, ended, finals, cancelled, doneNames, tickFirstId,
          advanced, stopped, probe>>

----------------------------------------------------------------------------
(* Bounds of the model *)

MaxTime == 2000
MaxStarts == 3

Names == {"x", "y"}
ClockSteps == {500}
Ids == 1..MaxStarts

----------------------------------------------------------------------------
(* Numbers.  A number is an exact rational <<numerator, denominator>> or a  *)
(* double <<"d", negative, magnitude>>.  The scheduler computes with        *)
(* integers and quotients of them that a double holds exactly, so it uses   *)
(* the rationals.  The magnitude of a double is a natural number of units   *)
(* 2^-Frac, written in digits of W bits, lowest digit first, without        *)
(* leading zeros; every operation rounds its exact result to Precision      *)
(* binary digits, ties to even, as IEEE 754 does.                           *)

Abs(n) == IF n < 0 THEN -n ELSE n

RECURSIVE GCD(_, _)
GCD(a, b) == IF b = 0 THEN a ELSE GCD(b, a % b)

Rat(n, d) == LET g == GCD(Abs(n), d) IN <<n \div g, d \div g>>
Num(n) == <<n, 1>>
One == Num(1)
Zero == Num(0)

W == 14
B == 2 ^ W
Frac == 112
Precision == 53

Zeros(k) == [i \in 1..k |-> 0]

RECURSIVE Strip(_)
Strip(x) ==
    IF x = <<>> THEN x
    ELSE IF x[Len(x)] = 0 THEN Strip(SubSeq(x, 1, Len(x) - 1)) ELSE x

\* the digits of a natural number below 2^31
Digits(n) == Strip(<<n % B, (n \div B) % B, n \div (B * B)>>)

RECURSIVE Log2(_)
Log2(d) == IF d <= 1 THEN 0 ELSE 1 + Log2(d \div 2)

RECURSIVE BAdd(_, _, _)
BAdd(x, y, c) ==
    IF x = <<>> /\ y = <<>> THEN (IF c = 1 THEN <<1>> ELSE <<>>)
    ELSE LET a == IF x = <<>> THEN 0 ELSE Head(x)
             b == IF y = <<>> THEN 0 ELSE Head(y)
             s == a + b + c
         IN  <<s % B>> \o BAdd(IF x = <<>> THEN x ELSE Tail(x),
                               IF y = <<>> THEN y ELSE Tail(y), s \div B)

\* x - y - c for x >= y + c, not stripped
RECURSIVE BSub(_, _, _)
BSub(x, y, c) ==
    IF x = <<>> THEN <<>>
    ELSE LET b == IF y = <<>> THEN 0 ELSE Head(y)
             d == Head(x) - b - c
         IN  <<d % B>> \o BSub(Tail(x), IF y = <<>> THEN y ELSE Tail(y),
                               IF d < 0 THEN 1 ELSE 0)

BLess(x, y) ==
    \/ Len(x) < Len(y)
    \/ /\ Len(x) = Len(y)
       /\ \E i \in 1..Len(x) :
             x[i] < y[i] /\ \A j \in (i + 1)..Len(x) : x[j] = y[j]

\* x * d + c for a digit d
RECURSIVE MulDigit(_, _, _)
MulDigit(x, d, c) ==
    IF x = <<>> THEN (IF c = 0 THEN <<>> ELSE <<c>>)
    ELSE LET p == Head(x) * d + c
         IN  <<p % B>> \o MulDigit(Tail(x), d, p \div B)

RECURSIVE BMul(_, _)
BMul(x, y) ==
    IF x = <<>> \/ y = <<>> THEN <<>>
    ELSE BAdd(MulDigit(y, Head(x), 0), <<0>> \o BMul(Tail(x), y), 0)

\* x * 2^k, and x \div 2^k
ShiftL(x, k) ==
    IF x = <<>> THEN x ELSE Zeros(k \div W) \o MulDigit(x, 2 ^ (k % W), 0)
ShiftR(x, k) ==
    LET ds == k \div W
        bs == k % W
    IN  Strip([i \in 1..(Len(x) - ds) |->
                 (x[i + ds] \div (2 ^ bs))
                 + (IF i + ds + 1 <= Len(x)
                    THEN (x[i + ds + 1] % (2 ^ bs)) * (2 ^ (W - bs)) ELSE 0)])

\* the number of binary digits of x, and its binary digit of weight 2^j
BitLen(x) == IF x = <<>> THEN 0 ELSE (Len(x) - 1) * W + Log2(x[Len(x)]) + 1
Bit(x, j) ==
    IF j \div W + 1 > Len(x) THEN 0 ELSE (x[j \div W + 1] \div (2 ^ (j % W))) % 2

\* round to nearest, ties to even, at Precision significant binary digits
Round(x) ==
    LET k == BitLen(x) - Precision
    IN  IF k <= 0 THEN x
        ELSE LET q == ShiftR(x, k)
                 up == /\ Bit(x, k - 1) = 1
                       /\ Bit(x, k) = 1 \/ \E j \in 0..(k - 2) : Bit(x, j) = 1
             IN  ShiftL(IF up THEN BAdd(q, <<1>>, 0) ELSE q, k)

Double(neg, mag) == <<"d", neg /\ mag /= <<>>, mag>>
IsDouble(p) == Len(p) = 3

\* the double of a whole number, and of mantissa (hi * 2^28 + lo) * 2^e
IntD(n) == Double(n < 0, ShiftL(Digits(Abs(n)), Frac))
Lit(hi, lo, e) ==
    Double(FALSE, ShiftL(Strip(<<lo % B, lo \div B, hi % B, hi \div B>>), Frac + e))

\* a number as a double: whole numbers and halves, quarters, ... of them
ToDouble(p) ==
    IF IsDouble(p) THEN p
    ELSE Double(p[1] < 0, ShiftR(IntD(p[1])[3], Log2(p[2])))

DAdd(p, q) ==
    IF p[2] = q[2] THEN Double(p[2], Round(BAdd(p[3], q[3], 0)))
    ELSE IF BLess(p[3], q[3])
    THEN Double(q[2], Round(Strip(BSub(q[3], p[3], 0))))
    ELSE Double(p[2], Round(Strip(BSub(p[3], q[3], 0))))

DMul(p, q) ==
    LET r == Round(Strip(BMul(p[3], q[3])))
    IN  Double(p[2] /= q[2], SubSeq(r, Frac \div W + 1, Len(r)))

\* + - * on numbers, and === between them
RAdd(p, q) ==
    IF IsDouble(p) \/ IsDouble(q) THEN DAdd(ToDouble(p), ToDouble(q))
    ELSE LET g == GCD(p[2], q[2])
         IN  Rat(p[1] * (q[2] \div g) + q[1] * (p[2] \div g), (p[2] \div g) * q[2])
RNeg(p) == IF IsDouble(p) THEN Double(~p[2], p[3]) ELSE <<-p[1], p[2]>>
RSub(p, q) == RAdd(p, RNeg(q))
RMul(p, q) ==
    IF IsDouble(p) \/ IsDouble(q) THEN DMul(ToDouble(p), ToDouble(q))
    ELSE Rat(p[1] * q[1], p[2] * q[2])
Div(n, d) == Rat(n, d)
REq(p, q) ==
    IF IsDouble(p) \/ IsDouble(q) THEN ToDouble(p) = ToDouble(q) ELSE p = q
RLeq(p, q) == p[1] * q[2] <= q[1] * p[2]

\* x / 2 on a double
Half(p) == Double(p[2], ShiftR(p[3], 1))

(* The literals and the Math library.  A literal is the double nearest to   *)
(* its decimal.  The Math functions are given at the arguments where        *)
(* ECMAScript fixes the result or the evaluations below call them.          *)

\* Math.PI = 0x1.921fb54442d18p+1
Pi == Lit(26353589, 71576856, -51)

\* Math.cos: 1 at 0; at Math.PI / 2, which is below pi / 2, 0x1.1a62633145c07p-54
Cos(x) ==
    CASE REq(x, Zero) -> ToDouble(One)
      [] REq(x, Half(Pi)) -> Lit(18506339, 51665927, -106)

\* Math.sin: 0 at 0
Sin(x) == CASE REq(x, Zero) -> ToDouble(Zero)

\* Math.pow: x^0 is 1; the squares of 0 and 1
Pow(x, y) ==
    CASE REq(y, Zero) -> One
      [] REq(y, Num(2)) /\ (REq(x, Zero) \/ REq(x, One)) -> x

\* Math.sqrt: the roots of 0 and 1
Sqrt(x) == CASE REq(x, Zero) \/ REq(x, One) -> x

----------------------------------------------------------------------------
(* ease.formula *)

\* 1 - Math.cos((t * Math.PI) / 2)
sine(t) == RSub(One, Cos(Half(RMul(t, Pi))))

sq1(t) == t
sq2(t) == RMul(t, t)
sq3(t) == RMul(RMul(t, t), t)
sq4(t) == RMul(RMul(RMul(t, t), t), t)
sq5(t) == RMul(RMul(RMul(RMul(t, t), t), t), t)

\* t === 0 ? 0 : Math.pow(2, 10 * t - 10)
expo(t) ==
    IF REq(t, Zero) THEN Zero ELSE Pow(Num(2), RSub(RMul(Num(10), t), Num(10)))

\* 1.0 - Math.sqrt(1.0 - Math.pow(t, 2))
circ(t) == RSub(One, Sqrt(RSub(One, Pow(t, Num(2)))))

\* c1 = 1.70158 = 0x1.b39abf3387161p+0; c3 = c1 + 1
c1 == Lit(28547775, 54030689, -52)
c3 == RAdd(c1, One)

\* c3 * t * t * t - c1 * t * t
back(t) == RSub(RMul(RMul(RMul(c3, t), t), t), RMul(RMul(c1, t), t))

\* c4 = (2 * Math.PI) / 3 = 0x1.0c152382d7365p+1
c4 == Lit(17569059, 137196389, -51)

\* t === 0 ? 0 : t === 1 ? 1 : -Math.pow(2, 10 * t - 10) * Math.sin((t * 10 - 10.75) * c4)
elastic(t) ==
    IF REq(t, Zero) THEN Zero
    ELSE IF REq(t, One) THEN One
    ELSE RMul(RNeg(Pow(Num(2), RSub(RMul(Num(10), t), Num(10)))),
              Sin(RMul(RSub(RMul(t, Num(10)), Rat(43, 4)), c4)))

Formulas == {"sine", "sq1", "sq2", "sq3", "sq4", "sq5", "expo", "circ", "back", "elastic"}

formula(fn, t) ==
    CASE fn = "sine" -> sine(t)
      [] fn = "sq1" -> sq1(t)
      [] fn = "sq2" -> sq2(t)
      [] fn = "sq3" -> sq3(t)
      [] fn = "sq4" -> sq4(t)
      [] fn = "sq5" -> sq5(t)
      [] fn = "expo" -> expo(t)
      [] fn = "circ" -> circ(t)
      [] fn = "back" -> back(t)
      [] fn = "elastic" -> elastic(t)

(* ease.util *)

lerp(a, b, t) == RAdd(a, RMul(RSub(b, a), t))
\* flip as a negation: -t in place of 1 - t
flipNegates(t) == RSub(Zero, t)
flip(t) == RSub(One, t)

(* ease.curves *)

linear(a, b, t) == lerp(a, b, t)
easeIn(fn, a, b, t) == lerp(a, b, formula(fn, t))

\* easeOut() without the outer flip
easeOutNoFlip(fn, a, b, t) == lerp(a, b, formula(fn, flip(t)))

easeOut(fn, a, b, t) == lerp(a, b, flip(formula(fn, flip(t))))

easeInOut(fn, a, b, t) ==
    LET t2 == lerp(formula(fn, t), flip(formula(fn, flip(t))), t)
    IN  lerp(a, b, t2)

\* A curve value, as blockAnimate builds it: an ease type and a formula.
Linear == [ease |-> "linear", fn |-> "sq1"]
EaseInSq2 == [ease |-> "easeIn", fn |-> "sq2"]

curve(c, a, b, t) ==
    CASE c.ease = "linear" -> linear(a, b, t)
      [] c.ease = "easeIn" -> easeIn(c.fn, a, b, t)
      [] c.ease = "easeOut" -> easeOut(c.fn, a, b, t)
      [] c.ease = "easeInOut" -> easeInOut(c.fn, a, b, t)

----------------------------------------------------------------------------
(* ease.animation: data *)

None == "None"
Reverse == "Reverse"
Restart == "Restart"
RepeatMode == {None, Reverse, Restart}

NoAnim == [id |-> 0]
NoHandler == [given |-> FALSE, script |-> <<>>]
Handler(s) == [given |-> TRUE, script |-> s]

\* new Animation(name, startValue, endValue, durationMs, curve, callback,
\* repeatMode, onEnd): a missing onEnd becomes the empty function.
Animation(id, name, req, millis) ==
    [id |-> id,
     name |-> name,
     startValue |-> req.startValue,
     endValue |-> req.endValue,
     durationMs |-> req.durationMs,
     curve |-> req.curve,
     callback |-> req.callback,
     repeatMode |-> req.repeatMode,
     onEnd |-> IF req.onEnd.given THEN req.onEnd.script ELSE <<>>,
     deltaValue |-> req.endValue - req.startValue,
     startMs |-> millis,
     reverse |-> FALSE]

exists(name) == animations[name] /= NoAnim

\* a delete that removes nothing
DeleteKeyNothing(anims, name) == anims

\* delete animations[name], on the object and on its property order
DeleteKey(anims, name) == [anims EXCEPT ![name] = NoAnim]
RemoveKey(ks, name) == SelectSeq(ks, LAMBDA k : k /= name)

----------------------------------------------------------------------------
(* The callbacks user code passes in.  A callback is the list of calls it  *)
(* makes; the names are those its closure captured: its own and the other. *)

Other(n) == CHOOSE m \in Names : m /= n
CancelCall(n) == [op |-> "cancel", name |-> n]
StartCall(n, r) == [op |-> "start", name |-> n, req |-> r]

\* The animation a callback starts.
Child ==
    [startValue |-> 0, endValue |-> 100, durationMs |-> 1000, curve |-> Linear,
     callback |-> <<>>, repeatMode |-> Reverse, onEnd |-> NoHandler]

\* Requests without re-entrant callbacks: every tween in every repeat mode.
Tweens ==
    { [startValue |-> 0, endValue |-> 100, durationMs |-> 1000, curve |-> Linear],
      [startValue |-> 60, endValue |-> 20, durationMs |-> 1000, curve |-> EaseInSq2] }

Request(tw, cb, mode, onEnd) ==
    [startValue |-> tw.startValue, endValue |-> tw.endValue,
     durationMs |-> tw.durationMs, curve |-> tw.curve,
     callback |-> cb, repeatMode |-> mode, onEnd |-> onEnd]

Plain == { Request(tw, <<>>, m, NoHandler) : tw \in Tweens, m \in RepeatMode }

\* Requests whose callback or onEnd handler calls back into the scheduler.
Short == [startValue |-> 60, endValue |-> 20, durationMs |-> 500, curve |-> Linear]

Reentrant(n) ==
    { Request(Short, <<>>, None, Handler(<<>>)),
      Request(Short, <<>>, None, Handler(<<StartCall(n, Child)>>)),
      Request(Short, <<>>, None, Handler(<<CancelCall(Other(n))>>)),
      Request(Short, <<CancelCall(Other(n))>>, Restart, NoHandler),
      Request(Short, <<StartCall(Other(n), Child)>>, Restart, NoHandler),
      Request(Short, <<CancelCall(Other(n)), StartCall(Other(n), Child)>>, Reverse, NoHandler),
      Request(Short, <<CancelCall(n)>>, None, Handler(<<>>)),
      Request(Short, <<CancelCall(n), StartCall(n, Child)>>, None, NoHandler) }

\* The program under test: the callbacks of "x" call back into the scheduler,
\* those of "y" do not.
Requests(n) == IF n = "x" THEN Plain \cup Reentrant(n) ELSE Plain

----------------------------------------------------------------------------
(* History values *)

NoDelivery == [id |-> 0]
NoFrame == [this |-> NoAnim, currMs |-> 0, complete |-> FALSE]
NoProbe == [kind |-> "none", done |-> FALSE]

\* the state of the scheduler when the program starts; N: the names it will use
BootOn(N) ==
    /\ now = 0
    /\ animations = [n \in N |-> NoAnim]
    /\ keys = <<>>
    /\ nextId = 1
    /\ pc = "idle"
    /\ names = <<>>
    /\ frame = NoFrame
    /\ script = <<>>
    /\ delivered = NoDelivery
    /\ ended = [i \in Ids |-> 0]
    /\ finals = {}
    /\ cancelled = {}
    /\ doneNames = {}
    /\ tickFirstId = 1
    /\ advanced = [i \in Ids |-> 0]
    /\ stopped = {}

Boot == BootOn(Names)

Init == Boot /\ probe = NoProbe

----------------------------------------------------------------------------
(* ease.animation: the exported functions *)

\* animate() without the test of the name: the new animation replaces the old
animateReplace(name, req) ==
    /\ animations' = [animations EXCEPT ![name] = Animation(nextId, name, req, now)]
    /\ keys' = IF animations[name] /= NoAnim THEN keys ELSE Append(keys, name)
    /\ nextId' = nextId + 1

\* animate(): the name is taken, return; else construct and register
animate(name, req) ==
    IF animations[name] /= NoAnim
    THEN UNCHANGED <<animations, keys, nextId>>
    ELSE /\ animations' = [animations EXCEPT ![name] = Animation(nextId, name, req, now)]
         /\ keys' = Append(keys, name)
         /\ nextId' = nextId + 1

\* cancel() that stops one-shot animations only
cancelOneShot(name) ==
    IF animations[name] /= NoAnim /\ animations[name].repeatMode /= None
    THEN UNCHANGED <<animations, keys, nextId>>
    ELSE /\ animations' = DeleteKey(animations, name)
         /\ keys' = RemoveKey(keys, name)
         /\ UNCHANGED nextId

\* cancel(): delete animations[name]
cancel(name) ==
    /\ animations' = DeleteKey(animations, name)
    /\ keys' = RemoveKey(keys, name)
    /\ UNCHANGED nextId

\* step() that reverses by swapping the values instead of flipping t
stepSwapped(this, t) ==
    IF this.reverse
    THEN [a |-> this.endValue, b |-> this.startValue, t |-> t,
          v |-> curve(this.curve, Num(this.endValue), Num(this.startValue), t)]
    ELSE [a |-> this.startValue, b |-> this.endValue, t |-> t,
          v |-> curve(this.curve, Num(this.startValue), Num(this.endValue), t)]

\* Animation.step(t): the arguments and the result of the curve call whose
\* value goes to this.callback
step(this, t) ==
    LET t1 == IF this.reverse THEN flip(t) ELSE t
    IN  [a |-> this.startValue, b |-> this.endValue, t |-> t1,
         v |-> curve(this.curve, Num(this.startValue), Num(this.endValue), t1)]

\* An assignment to this.startMs / this.reverse: the registry shows it when
\* the object is still the one registered under its name.
\* the assignments of the switch, with a reversal that swaps the two values
SetFieldsSwaps(anims, this, startMs, reverse) ==
    IF anims[this.name].id = this.id
    THEN [anims EXCEPT ![this.name].startMs = startMs, ![this.name].reverse = reverse,
                       ![this.name].startValue = this.endValue,
                       ![this.name].endValue = this.startValue]
    ELSE anims

SetFields(anims, this, startMs, reverse) ==
    IF anims[this.name].id = this.id
    THEN [anims EXCEPT ![this.name].startMs = startMs, ![this.name].reverse = reverse]
    ELSE anims

----------------------------------------------------------------------------
(* Operations of the host program, between two frames *)

Start(name, req) ==
    /\ pc = "idle"
    /\ exists(name) \/ nextId <= MaxStarts
    /\ animate(name, req)
    /\ UNCHANGED <<now, pc, names, frame, script, delivered, ended, finals, cancelled,
                   doneNames, tickFirstId>>
    /\ UNCHANGED <<advanced, stopped, probe>>

Cancel(name) ==
    /\ pc = "idle"
    /\ cancel(name)
    /\ cancelled' = IF exists(name) THEN cancelled \cup {animations[name].id}
                    ELSE cancelled
    /\ UNCHANGED <<now, pc, names, frame, script, delivered, ended, finals,
                   doneNames, tickFirstId>>
    /\ UNCHANGED <<advanced, stopped, probe>>

\* control.millis() grows, at any point of the program
ClockAdvance(d) ==
    /\ pc /= "crashed"
    /\ now + d <= MaxTime
    /\ now' = now + d
    /\ UNCHANGED <<animations, keys, nextId, pc, names, frame, script, delivered,
                   ended, finals, cancelled, doneNames, tickFirstId>>
    /\ UNCHANGED <<advanced, stopped, probe>>

----------------------------------------------------------------------------
(* game.onUpdate handler *)

\* const animNames = Object.keys(animations)
TickBegin ==
    /\ pc = "idle"
    /\ pc' = "loop"
    /\ names' = keys
    /\ tickFirstId' = nextId
    /\ UNCHANGED <<now, animations, keys, nextId, frame, script, delivered,
                   ended, finals, cancelled, doneNames>>
    /\ UNCHANGED <<advanced, stopped, probe>>

\* const anim = animations[name]; anim.update() up to the call of this.callback
Update ==
    /\ pc = "loop"
    /\ names /= <<>>
    /\ LET name == Head(names)
           anim == animations[name]
       IN  /\ anim /= NoAnim
           /\ LET currMs == now
                  deltaMs == currMs - anim.startMs
                  complete == deltaMs >= anim.durationMs
                  t == IF complete THEN One ELSE Div(deltaMs, anim.durationMs)
              IN  /\ frame' = [this |-> anim, currMs |-> currMs, complete |-> complete]
                  /\ delivered' = [id |-> anim.id, p |-> t, curve |-> step(anim, t)]
                  /\ script' = anim.callback
                  /\ finals' = IF complete /\ anim.repeatMode = None
                                THEN finals \cup {anim.id} ELSE finals
    /\ names' = Tail(names)
    /\ pc' = "callback"
    /\ UNCHANGED <<now, animations, keys, nextId, ended, cancelled, doneNames,
                   tickFirstId>>
    /\ advanced' = [advanced EXCEPT ![animations[Head(names)].id] = IF @ < 2 THEN @ + 1 ELSE @]
    /\ UNCHANGED <<stopped, probe>>

\* anim is undefined: anim.update() throws out of the handler, the program stops
TickThrow ==
    /\ pc = "loop"
    /\ names /= <<>>
    /\ animations[Head(names)] = NoAnim
    /\ pc' = "crashed"
    /\ UNCHANGED <<now, animations, keys, nextId, names, frame, script, delivered,
                   ended, finals, cancelled, doneNames, tickFirstId>>
    /\ UNCHANGED <<advanced, stopped, probe>>

\* the running callback or onEnd handler calls animate()
NestedStart ==
    /\ pc \in {"callback", "onEnd"}
    /\ script /= <<>>
    /\ Head(script).op = "start"
    /\ exists(Head(script).name) \/ nextId <= MaxStarts
    /\ animate(Head(script).name, Head(script).req)
    /\ script' = Tail(script)
    /\ UNCHANGED <<now, pc, names, frame, delivered, ended, finals, cancelled,
                   doneNames, tickFirstId>>
    /\ UNCHANGED <<advanced, stopped, probe>>

\* the running callback or onEnd handler calls cancel()
NestedCancelCall ==
    /\ pc \in {"callback", "onEnd"}
    /\ script /= <<>>
    /\ Head(script).op = "cancel"
    /\ cancel(Head(script).name)
    /\ script' = Tail(script)
    /\ UNCHANGED <<now, pc, names, frame, delivered, ended, finals, cancelled,
                   doneNames, tickFirstId>>
    /\ UNCHANGED <<advanced, probe>>

NestedCancel == NestedCancelCall /\ UNCHANGED stopped

\* the same call, with the history of the objects it removed
NestedCancelNoted ==
    /\ NestedCancelCall
    /\ stopped' = IF exists(Head(script).name)
                  THEN stopped \cup {animations[Head(script).name].id} ELSE stopped

\* update(), deltaMs < durationMs: the callback returns and so does update()
UpdateContinue ==
    /\ pc = "callback"
    /\ script = <<>>
    /\ ~frame.complete
    /\ pc' = "loop"
    /\ frame' = NoFrame
    /\ delivered' = NoDelivery
    /\ UNCHANGED <<now, animations, keys, nextId, names, script, ended, finals, cancelled,
                   doneNames, tickFirstId>>
    /\ UNCHANGED <<advanced, stopped, probe>>

\* case RepeatMode.None without the delete
UpdateNoneKeep ==
    /\ pc = "callback"
    /\ script = <<>>
    /\ frame.complete
    /\ frame.this.repeatMode = None
    /\ pc' = "onEnd"
    /\ script' = frame.this.onEnd
    /\ ended' = [ended EXCEPT ![frame.this.id] = IF @ < 2 THEN @ + 1 ELSE @]
    /\ doneNames' = doneNames \cup {frame.this.name}
    /\ UNCHANGED <<now, animations, keys, nextId, names, frame, delivered, finals,
                   cancelled, tickFirstId>>
    /\ UNCHANGED <<advanced, stopped, probe>>

\* case RepeatMode.None that deletes and does not call this.onEnd
UpdateNoneSilent ==
    /\ pc = "callback"
    /\ script = <<>>
    /\ frame.complete
    /\ frame.this.repeatMode = None
    /\ animations' = DeleteKey(animations, frame.this.name)
    /\ keys' = RemoveKey(keys, frame.this.name)
    /\ pc' = "onEnd"
    /\ script' = <<>>
    /\ ended' = [ended EXCEPT ![frame.this.id] = IF @ < 2 THEN @ + 1 ELSE @]
    /\ doneNames' = doneNames \cup {frame.this.name}
    /\ UNCHANGED <<now, nextId, names, frame, delivered, finals, cancelled, tickFirstId>>
    /\ UNCHANGED <<advanced, stopped, probe>>

\* update(), case RepeatMode.None: delete animations[this.name]; this.onEnd(this.name)
UpdateNone ==
    /\ pc = "callback"
    /\ script = <<>>
    /\ frame.complete
    /\ frame.this.repeatMode = None
    /\ animations' = DeleteKey(animations, frame.this.name)
    /\ keys' = RemoveKey(keys, frame.this.name)
    /\ pc' = "onEnd"
    /\ script' = frame.this.onEnd
    /\ ended' = [ended EXCEPT ![frame.this.id] = IF @ < 2 THEN @ + 1 ELSE @]
    /\ doneNames' = doneNames \cup {frame.this.name}
    /\ UNCHANGED <<now, nextId, names, frame, delivered, finals, cancelled, tickFirstId>>
    /\ UNCHANGED <<advanced, stopped, probe>>

\* case RepeatMode.Reverse without the toggle of this.reverse
UpdateReverseNoToggle ==
    /\ pc = "callback"
    /\ script = <<>>
    /\ frame.complete
    /\ frame.this.repeatMode = Reverse
    /\ animations' = SetFields(animations, frame.this, frame.currMs, frame.this.reverse)
    /\ pc' = "loop"
    /\ frame' = NoFrame
    /\ delivered' = NoDelivery
    /\ UNCHANGED <<now, keys, nextId, names, script, ended, finals, cancelled, doneNames,
                   tickFirstId>>
    /\ UNCHANGED <<advanced, stopped, probe>>

\* update(), case RepeatMode.Reverse: this.startMs = currMs; this.reverse = !this.reverse
UpdateReverse ==
    /\ pc = "callback"
    /\ script = <<>>
    /\ frame.complete
    /\ frame.this.repeatMode = Reverse
    /\ animations' = SetFields(animations, frame.this, frame.currMs, ~frame.this.reverse)
    /\ pc' = "loop"
    /\ frame' = NoFrame
    /\ delivered' = NoDelivery
    /\ UNCHANGED <<now, keys, nextId, names, script, ended, finals, cancelled, doneNames,
                   tickFirstId>>
    /\ UNCHANGED <<advanced, stopped, probe>>

\* case RepeatMode.Restart falling through into the toggle of case Reverse
UpdateRestartToggles ==
    /\ pc = "callback"
    /\ script = <<>>
    /\ frame.complete
    /\ frame.this.repeatMode = Restart
    /\ animations' = SetFields(animations, frame.this, frame.currMs, ~frame.this.reverse)
    /\ pc' = "loop"
    /\ frame' = NoFrame
    /\ delivered' = NoDelivery
    /\ UNCHANGED <<now, keys, nextId, names, script, ended, finals, cancelled, doneNames,
                   tickFirstId>>
    /\ UNCHANGED <<advanced, stopped, probe>>

\* update(), case RepeatMode.Restart: this.startMs = currMs
UpdateRestart ==
    /\ pc = "callback"
    /\ script = <<>>
    /\ frame.complete
    /\ frame.this.repeatMode = Restart
    /\ animations' = SetFields(animations, frame.this, frame.currMs, frame.this.reverse)
    /\ pc' = "loop"
    /\ frame' = NoFrame
    /\ delivered' = NoDelivery
    /\ UNCHANGED <<now, keys, nextId, names, script, ended, finals, cancelled, doneNames,
                   tickFirstId>>
    /\ UNCHANGED <<advanced, stopped, probe>>

\* this.onEnd returns, and so does update()
OnEndReturn ==
    /\ pc = "onEnd"
    /\ script = <<>>
    /\ pc' = "loop"
    /\ frame' = NoFrame
    /\ delivered' = NoDelivery
    /\ UNCHANGED <<now, animations, keys, nextId, names, script, ended, finals, cancelled,
                   doneNames, tickFirstId>>
    /\ UNCHANGED <<advanced, stopped, probe>>

\* the for-loop is over, the handler returns
TickEnd ==
    /\ pc = "loop"
    /\ names = <<>>
    /\ pc' = "idle"
    /\ doneNames' = {}
    /\ tickFirstId' = 1
    /\ UNCHANGED <<now, animations, keys, nextId, names, frame, script, delivered,
                   ended, finals, cancelled>>
    /\ advanced' = [i \in Ids |-> 0]
    /\ UNCHANGED <<stopped, probe>>

Next ==
    \/ \E n \in Names : \E r \in Requests(n) : Start(n, r)
    \/ \E n \in Names : Cancel(n)
    \/ \E d \in ClockSteps : ClockAdvance(d)
    \/ TickBegin
    \/ Update
    \/ TickThrow
    \/ NestedStart
    \/ NestedCancel
    \/ UpdateContinue
    \/ UpdateNone
    \/ UpdateReverse
    \/ UpdateRestart
    \/ OnEndReturn
    \/ TickEnd

Spec == Init /\ [][Next]_vars

----------------------------------------------------------------------------
(* SetOnComplete(name, handler).  The operation is described by the         *)
(* specification of the library; the sources at hand do not hold it.  It    *)
(* assigns the onEnd field of the object registered under the name, and     *)
(* does nothing when the name is not registered.                            *)

SetCall(n, h) == [op |-> "set", name |-> n, handler |-> h]

\* the handlers the program under test hands to SetOnComplete
SetHandlers(n) == { <<>>, <<CancelCall(Other(n))>> }

setOnComplete(name, handler) ==
    IF exists(name)
    THEN /\ animations' = [animations EXCEPT ![name].onEnd = handler]
         /\ frame' = IF frame.this.id = animations[name].id
                      THEN [frame EXCEPT !.this.onEnd = handler]
                      ELSE frame
    ELSE UNCHANGED <<animations, frame>>

\* the host program calls SetOnComplete between two frames
SetOnComplete(name, handler) ==
    /\ pc = "idle"
    /\ setOnComplete(name, handler)
    /\ UNCHANGED <<now, keys, nextId, pc, names, script, delivered, ended, finals,
                   cancelled, doneNames, tickFirstId, advanced, stopped, probe>>

\* the running callback or onEnd handler calls SetOnComplete
NestedSetOnComplete ==
    /\ pc \in {"callback", "onEnd"}
    /\ script /= <<>>
    /\ Head(script).op = "set"
    /\ setOnComplete(Head(script).name, Head(script).handler)
    /\ script' = Tail(script)
    /\ UNCHANGED <<now, keys, nextId, pc, names, delivered, ended, finals,
                   cancelled, doneNames, tickFirstId, advanced, stopped, probe>>

\* The program under test: "x" ends with a handler given to animate(), or
\* replaces its handler from its own callback, or cancels "y" while it repeats.
RequestsSOC(n) ==
    IF n = "x"
    THEN { Request(Short, <<>>, None, Handler(<<StartCall(n, Child)>>)),
           Request(Short, <<SetCall(n, <<CancelCall(Other(n))>>)>>, None, Handler(<<>>)),
           Request(Short, <<CancelCall(Other(n))>>, Restart, NoHandler) }
    ELSE { Request(Short, <<>>, m, NoHandler) : m \in RepeatMode }

NextSOC ==
    \/ \E n \in Names : \E r \in RequestsSOC(n) : Start(n, r)
    \/ \E n \in Names : Cancel(n)
    \/ \E n \in Names : \E h \in SetHandlers(n) : SetOnComplete(n, h)
    \/ \E d \in ClockSteps : ClockAdvance(d)
    \/ TickBegin
    \/ Update
    \/ TickThrow
    \/ NestedStart
    \/ NestedCancel
    \/ NestedSetOnComplete
    \/ UpdateContinue
    \/ UpdateNone
    \/ UpdateReverse
    \/ UpdateRestart
    \/ OnEndReturn
    \/ TickEnd

SpecSOC == Init /\ [][NextSOC]_vars

----------------------------------------------------------------------------
(* A program with three animations, under the scheduling the host gives:    *)
(* the game.onUpdate handler is called on every frame and runs to its end,  *)
(* and control.millis() keeps growing.                                      *)

Names3 == {"x", "y", "z"}

\* The one-shot animation a callback starts.
LiveChild ==
    [startValue |-> 0, endValue |-> 100, durationMs |-> 500, curve |-> Linear,
     callback |-> <<>>, repeatMode |-> None, onEnd |-> NoHandler]

\* "x" cancels "y" while it repeats, or replaces itself by a one-shot
\* animation; "y" and "z" are plain.
LiveRequests(n) ==
    IF n = "x"
    THEN { Request(Short, <<CancelCall("y")>>, Restart, NoHandler),
           Request(Short, <<CancelCall(n), StartCall(n, LiveChild)>>, None, NoHandler) }
    ELSE IF n = "y"
    THEN { Request(Short, <<>>, Reverse, NoHandler) }
    ELSE { Request(Short, <<>>, None, Handler(<<>>)) }

LiveInit == BootOn(Names3) /\ probe = NoProbe

\* the steps of a run of the game.onUpdate handler other than TickBegin and Update
FrameRest ==
    \/ TickThrow
    \/ NestedStart
    \/ NestedCancelNoted
    \/ UpdateContinue
    \/ UpdateNone
    \/ UpdateReverse
    \/ UpdateRestart
    \/ OnEndReturn
    \/ TickEnd

FrameStep == Update \/ FrameRest

\* the loop reaches the update of the next registered name: under LiveNext
\* the steps that take pc from "loop" to "callback" are exactly those of Update
UpdateBegins ==
    /\ pc = "loop"
    /\ names /= <<>>
    /\ animations[Head(names)] /= NoAnim
    /\ pc' = "callback"

Clock == \E d \in ClockSteps : ClockAdvance(d)

LiveNext ==
    \/ \E n \in Names3 : \E r \in LiveRequests(n) : Start(n, r)
    \/ \E n \in Names3 : Cancel(n)
    \/ Clock
    \/ TickBegin
    \/ FrameStep

LiveSpec ==
    /\ LiveInit
    /\ [][LiveNext]_vars
    /\ WF_vars(TickBegin)
    /\ WF_pc(UpdateBegins)
    /\ WF_vars(FrameRest)
    /\ WF_vars(Clock)

----------------------------------------------------------------------------
(* The curve library on its own: a curve or a formula is called once with   *)
(* arguments drawn from the sets below, on exact numbers and on doubles.    *)

D0 == ToDouble(Zero)
D1 == ToDouble(One)

\* 0.1 = 0x1.999999999999ap-4
Tenth == Lit(26843545, 161061274, -56)

Polynomials == {"sq1", "sq2", "sq3", "sq4", "sq5"}
Eases == {"linear", "easeIn", "easeOut", "easeInOut"}
ExactTs == {Zero, Rat(1, 4), Rat(1, 2), Rat(3, 4), One}
ExactValues == {Num(0), Num(20), Num(60), Num(100)}
DoubleValues == {IntD(0), IntD(1), IntD(100), Tenth}

FormulaProbe(fn, t) == [kind |-> "formula", fn |-> fn, t |-> t, done |-> FALSE]
CurveProbe(ease, fn, a, b, t) ==
    [kind |-> "curve", ease |-> ease, fn |-> fn, a |-> a, b |-> b, t |-> t,
     done |-> FALSE]

Probes ==
    { FormulaProbe(fn, t) : fn \in Formulas, t \in {D0, D1} }
    \cup { FormulaProbe(fn, t) : fn \in Polynomials \cup {"back"}, t \in ExactTs }
    \cup { CurveProbe(e, fn, a, b, t) :
              e \in Eases, fn \in Polynomials, a \in ExactValues, b \in ExactValues,
              t \in ExactTs }
    \cup { CurveProbe(e, fn, a, b, t) :
              e \in Eases, fn \in Formulas, a \in DoubleValues, b \in DoubleValues,
              t \in {D0, D1} }

CurveInit == Boot /\ probe \in Probes

\* the call: ease.formula.<fn>(t), or ease.curves.<ease>(<fn>)(a, b, t)
Evaluate ==
    /\ probe.kind /= "none"
    /\ ~probe.done
    /\ probe' =
          IF probe.kind = "formula"
          THEN [kind |-> "formula", fn |-> probe.fn, t |-> probe.t, done |-> TRUE,
                out |-> formula(probe.fn, probe.t)]
          ELSE [kind |-> "curve", ease |-> probe.ease, fn |-> probe.fn,
                a |-> probe.a, b |-> probe.b, t |-> probe.t, done |-> TRUE,
                out |-> curve([ease |-> probe.ease, fn |-> probe.fn],
                              probe.a, probe.b, probe.t)]
    /\ UNCHANGED <<now, animations, keys, nextId, pc, names, frame, script, delivered,
                   ended, finals, cancelled, doneNames, tickFirstId, advanced, stopped>>

CurveNext == Evaluate

CurveSpec == CurveInit /\ [][CurveNext]_vars

----------------------------------------------------------------------------
(* Steps, by the call they perform *)

\* a call of animate(n, ...), by the host or by a running callback
StartStep(n) ==
    \/ \E r \in Requests(n) : Start(n, r)
    \/ NestedStart /\ Head(script).name = n

\* a call of cancel(n), by the host or by a running callback
CancelStep(n) ==
    \/ Cancel(n)
    \/ NestedCancel /\ Head(script).name = n

\* update() returns to the for-loop: the step that leaves the callback or the handler
Returns == pc \in {"callback", "onEnd"} /\ pc' = "loop"

\* the switch of update() is taken for a completed animation of mode m
Switch(m) ==
    /\ pc = "callback"
    /\ script = <<>>
    /\ frame.complete
    /\ frame.this.repeatMode = m
    /\ pc' /= "callback"

\* the object `this` of the running update() is the one registered under its name
Registered(this) == animations[this.name].id = this.id

\* the progress the claims speak of: 1 once the duration has elapsed, else the quotient
Progress(this, currMs) ==
    IF currMs - this.startMs >= this.durationMs
    THEN One
    ELSE Rat(currMs - this.startMs, this.durationMs)

----------------------------------------------------------------------------
\* the registry after the step differs from the registry before it: an entry
\* added, removed or replaced, or a field of a registered object changed
RegistryChanges == animations' /= animations \/ keys' /= keys \/ nextId' /= nextId

(* C1: animate() on a name that is registered changes nothing: the registry *)
(* holds the same object with the same fields, and no entry is added or     *)
(* removed.  Stated by contraposition: no step that changes the registry    *)
(* while n is registered is a call of animate(n, ...).                      *)
C1_StartOnExistingIsNoOp ==
    [][\A n \in Names :
          (exists(n) /\ RegistryChanges) => ~StartStep(n)]_vars

\* a callback has called animate("y", ...) while the "y" of before the frame is registered
C1_Witness ==
    /\ pc = "callback"
    /\ frame.this.callback = <<StartCall("y", Child)>>
    /\ script = <<>>
    /\ exists("y")
    /\ animations["y"].id < tickFirstId
    /\ animations["y"].repeatMode = None

(* C2: the value delivered to the callback is the curve applied to          *)
(* startValue, endValue (in this order) and p', where p is 1 when           *)
(* now - startMs >= durationMs and (now - startMs) / durationMs otherwise,  *)
(* and p' is 1 - p when the animation is reversed and p otherwise.          *)
C2_DeliveredValue ==
    pc \in {"callback", "onEnd"} =>
        LET this == frame.this
            p == Progress(this, frame.currMs)
            p1 == IF this.reverse THEN RSub(One, p) ELSE p
        IN  /\ delivered.id = this.id
            /\ delivered.curve.a = this.startValue
            /\ delivered.curve.b = this.endValue
            /\ delivered.curve.t = p1
            /\ delivered.curve.v =
                   curve(this.curve, Num(this.startValue), Num(this.endValue), p1)

\* a reversed animation with a non-linear curve gets its value half way
C2_Witness ==
    /\ pc = "callback"
    /\ frame.this.reverse
    /\ frame.this.curve = EaseInSq2
    /\ delivered.p = <<1, 2>>
    /\ delivered.curve.v = Num(50)

\* the for-loop of the frame has visited every name of animNames
LoopOver == pc = "loop" /\ names = <<>>

\* C3, the part the claim and its amendment share: onEnd of an object is
\* invoked at most once, in the update() that delivered the progress 1 value
\* (endValue, for the linear curve); every RepeatMode.None object that got its
\* progress 1 value has had its onEnd invoked when update() has returned; an
\* object whose onEnd was invoked is never registered and never advanced again.
C3_OnEndOnce ==
    /\ \A i \in Ids : ended[i] <= 1
    /\ pc = "onEnd" =>
          /\ delivered.id = frame.this.id
          /\ delivered.p = One
          /\ frame.this.curve = Linear => delivered.curve.v = Num(frame.this.endValue)
          /\ ended[frame.this.id] = 1
          /\ frame.this.repeatMode = None
    /\ pc = "callback" => ended[frame.this.id] = 0
    /\ pc \in {"loop", "idle", "crashed"} =>
          \A i \in Ids : (i \in finals) <=> (ended[i] = 1)
    /\ \A n \in Names : exists(n) => ended[animations[n].id] = 0

(* C3, as claimed: onEnd of a RepeatMode.None animation is invoked exactly  *)
(* once, in the frame that delivers the final value, and after that frame   *)
(* exists(name) is false and the animation is never advanced again.         *)
C3_Original ==
    /\ C3_OnEndOnce
    /\ LoopOver => \A n \in doneNames : ~exists(n)

(* C3, amended: as claimed, but after that frame the name is free of that   *)
(* animation only: exists(name) is false unless a handler that ran during   *)
(* the frame, after the removal, registered a new animation under the name. *)
C3_OnEndOnceThenGone ==
    /\ C3_OnEndOnce
    /\ LoopOver => \A n \in doneNames : exists(n) => animations[n].id >= tickFirstId

\* a frame in which "x" completed, fired onEnd, and a second frame in progress
\* with the object gone
C3_Witness ==
    /\ pc = "callback"
    /\ frame.this.name = "y"
    /\ ~exists("x")
    /\ \E i \in Ids : ended[i] = 1 /\ i < tickFirstId /\ i \notin cancelled

(* C4, as claimed: while onEnd runs the animation is still registered under *)
(* its name; the removal follows the handler.                               *)
C4_Original == pc = "onEnd" => Registered(frame.this)

(* C4, amended: the animation is removed before onEnd(name) is invoked:     *)
(* when the handler starts, exists(name) is false, and the completed object *)
(* is not registered at any point of the handler.                           *)
C4_RemovedBeforeOnEnd ==
    pc = "onEnd" =>
        /\ ~Registered(frame.this)
        /\ script = frame.this.onEnd => ~exists(frame.this.name)

\* an onEnd handler that was passed to animate() is about to make its call
C4_Witness ==
    /\ pc = "onEnd"
    /\ frame.this.onEnd = <<StartCall("x", Child)>>
    /\ script = frame.this.onEnd

(* C5: cancel(name) between two frames removes the animation whatever its   *)
(* mode and progress and touches no other entry; on a free name it changes  *)
(* nothing; it never throws; the cancelled object is never advanced by a    *)
(* later frame, stays out of the registry and its onEnd is never invoked.   *)
C5_CancelRemoves ==
    /\ [](/\ pc \in {"callback", "onEnd"} => frame.this.id \notin cancelled
          /\ \A i \in cancelled : ended[i] = 0
          /\ \A n \in Names : exists(n) => animations[n].id \notin cancelled)
    /\ [][\A n \in Names :
             Cancel(n) =>
                 /\ animations'[n] = NoAnim
                 /\ \A m \in Names \ {n} : animations'[m] = animations[m]
                 /\ ~exists(n) => (animations' = animations /\ keys' = keys)
                 /\ pc' = "idle"]_vars

\* a repeating animation was cancelled mid-flight and a later frame is running
C5_Witness ==
    /\ pc = "callback"
    /\ \E i \in cancelled : i < tickFirstId
    /\ frame.this.name = "y"
    /\ ~exists("x")
    /\ \A i \in Ids : ended[i] = 0

(* C6: the frame handler tolerates entries that disappeared: a name of the  *)
(* snapshot whose animation a callback cancelled is skipped without an      *)
(* exception.                                                               *)
C6_TickTolerates == pc /= "crashed"

(* C7: an animation registered by a callback or onEnd handler during a      *)
(* frame is not advanced in that frame, also when it reuses a name of the   *)
(* snapshot: every object advanced in a frame was constructed before the    *)
(* frame took its snapshot.                                                 *)
C7_NewNotAdvancedSameTick ==
    pc \in {"callback", "onEnd"} => frame.this.id < tickFirstId

\* the animation of the end-to-end scenario: 0 to 100 in 1000 ms, linear
Scenario(this, mode) ==
    /\ this.repeatMode = mode
    /\ this.startValue = 0
    /\ this.endValue = 100
    /\ this.durationMs = 1000
    /\ this.curve = Linear

(* C8: the completion of a RepeatMode.Reverse animation delivers the        *)
(* progress 1 value, then sets startMs to now and toggles reverse, and the  *)
(* animation stays registered; 0 to 100 in 1000 ms, linear, advanced at     *)
(* now = 0, 1000, 2000 delivers 0, 100, 0.                                  *)
C8_ReverseCompletion ==
    /\ [](/\ (pc = "callback" /\ frame.complete /\ frame.this.repeatMode = Reverse) =>
                /\ delivered.p = One
                /\ delivered.curve.t = IF frame.this.reverse THEN Zero ELSE One
          /\ (pc = "callback" /\ Scenario(frame.this, Reverse)) =>
                /\ (frame.this.startMs = 0 /\ ~frame.this.reverse /\ frame.currMs = 0)
                      => delivered.curve.v = Num(0)
                /\ (frame.this.startMs = 0 /\ ~frame.this.reverse /\ frame.currMs = 1000)
                      => (frame.complete /\ delivered.curve.v = Num(100))
                /\ (frame.this.startMs = 1000 /\ frame.this.reverse /\ frame.currMs = 2000)
                      => (frame.complete /\ delivered.curve.v = Num(0)))
    /\ [][/\ Switch(Reverse) =>
                /\ keys' = keys
                /\ \A n \in Names \ {frame.this.name} : animations'[n] = animations[n]
                /\ IF Registered(frame.this)
                   THEN animations'[frame.this.name] =
                            [animations[frame.this.name] EXCEPT
                                !.startMs = frame.currMs,
                                !.reverse = ~frame.this.reverse]
                   ELSE animations' = animations
          /\ (Returns /\ frame.this.repeatMode = Reverse /\ Registered(frame.this)) =>
                animations'[frame.this.name].id = frame.this.id]_vars

\* the third advance of the scenario: the reversed leg, started at 1000, ends at 2000
C8_Witness ==
    /\ pc = "callback"
    /\ Scenario(frame.this, Reverse)
    /\ frame.this.startMs = 1000
    /\ frame.this.reverse
    /\ frame.currMs = 2000
    /\ delivered.curve.v = Num(0)
    /\ Registered(frame.this)

(* C9: the completion of a RepeatMode.Restart animation delivers the        *)
(* progress 1 value, then sets startMs to now and leaves reverse alone:     *)
(* reverse is false on every leg and t is never flipped.                    *)
C9_RestartCompletion ==
    /\ [](/\ \A n \in Names :
                (exists(n) /\ animations[n].repeatMode = Restart) => ~animations[n].reverse
          /\ (pc = "callback" /\ frame.this.repeatMode = Restart) =>
                /\ ~frame.this.reverse
                /\ delivered.curve.t = delivered.p
                /\ frame.complete => delivered.p = One)
    /\ [][/\ Switch(Restart) =>
                /\ keys' = keys
                /\ \A n \in Names \ {frame.this.name} : animations'[n] = animations[n]
                /\ IF Registered(frame.this)
                   THEN animations'[frame.this.name] =
                            [animations[frame.this.name] EXCEPT !.startMs = frame.currMs]
                   ELSE animations' = animations
          /\ (Returns /\ frame.this.repeatMode = Restart /\ Registered(frame.this)) =>
                animations'[frame.this.name].id = frame.this.id]_vars

\* a Restart animation on a later leg: it was constructed before a one-shot
\* animation (whose startMs never changes) and has a later startMs
C9_Witness ==
    /\ pc = "idle"
    /\ exists("x") /\ exists("y")
    /\ animations["x"].repeatMode = Restart
    /\ animations["y"].repeatMode = None
    /\ animations["x"].id < animations["y"].id
    /\ animations["x"].startMs > animations["y"].startMs
    /\ ~animations["x"].reverse

(* C10: an animation of mode Reverse or Restart leaves the registry by      *)
(* cancel(name) only: no other step removes or replaces it.                 *)
C10_RepeatingLeavesByCancelOnly ==
    [][\A n \in Names :
          (/\ exists(n)
           /\ animations[n].repeatMode \in {Reverse, Restart}
           /\ animations'[n].id /= animations[n].id) => CancelStep(n)]_vars

(* C11: SetOnComplete(name, handler) replaces the onEnd handler of the      *)
(* object registered under the name and leaves its other fields, the other  *)
(* objects and the order of the registry as they were; on a name that is    *)
(* not registered it changes nothing.  When a RepeatMode.None animation     *)
(* that is still registered completes, the handler invoked is the one the   *)
(* registry holds for it at that moment: the last one set.                  *)
SetOnCompleteStep(n, h) ==
    \/ SetOnComplete(n, h)
    \/ NestedSetOnComplete /\ Head(script).name = n /\ Head(script).handler = h

ExactCurveCall == probe.kind = "curve" /\ probe.done /\ ~IsDouble(probe.t)

(* C12, as the specification words it: for every formula f, all a, b and    *)
(* all t in [0, 1], easeOut(f)(a, b, t) = b + a - easeIn(f)(b, a, 1 - t).   *)
C12_Original ==
    (ExactCurveCall /\ probe.ease = "easeOut") =>
        probe.out = RSub(RAdd(probe.b, probe.a),
                         easeIn(probe.fn, probe.b, probe.a, flip(probe.t)))

(* C12: the ease-out curve is the ease-in curve mirrored in the midpoint of *)
(* the value range and of the time range: for every formula f, all a, b and *)
(* all t in [0, 1], easeOut(f)(a, b, t) = b + a - easeIn(f)(a, b, 1 - t).   *)
C12_Mirror ==
    (ExactCurveCall /\ probe.ease = "easeOut") =>
        probe.out = RSub(RAdd(probe.b, probe.a),
                         easeIn(probe.fn, probe.a, probe.b, flip(probe.t)))

\* easeOut(sq2)(0, 100, 1/4) returned 43.75 = 0 + 100 - easeIn(sq2)(0, 100, 3/4)
C12_Witness ==
    /\ ExactCurveCall
    /\ probe.ease = "easeOut"
    /\ probe.fn = "sq2"
    /\ probe.a = Num(0)
    /\ probe.b = Num(100)
    /\ probe.t = Rat(1, 4)
    /\ probe.out = Rat(175, 4)

(* C13: every formula of ease.formula returns 0 at t = 0 and 1 at t = 1.    *)
C13_FormulaEndpoints ==
    (probe.kind = "formula" /\ probe.done) =>
        /\ REq(probe.t, Zero) => REq(probe.out, Zero)
        /\ REq(probe.t, One) => REq(probe.out, One)

\* the handler has returned or has thrown
FrameOver == pc = "crashed" \/ (pc = "loop" /\ names = <<>>)

(* C14: in every frame, every object that was registered when the frame     *)
(* started and still is when the handler is over has been advanced exactly  *)
(* once, and no object is advanced twice, whatever the callbacks did.       *)
C14_AdvancedExactlyOnce ==
    /\ \A i \in Ids : advanced[i] <= 1
    /\ FrameOver =>
          \A n \in DOMAIN animations :
             (exists(n) /\ animations[n].id < tickFirstId)
                => advanced[animations[n].id] = 1

\* the fields of an animation object other than startMs and reverse
Fixed(a) == [a EXCEPT !.startMs = 0, !.reverse = FALSE]

\* the step leaves the switch of update() for the completed object a
CompletionOf(a) ==
    /\ pc = "callback"
    /\ script = <<>>
    /\ frame.complete
    /\ frame.this.id = a.id

(* C15: while an animation object is registered, only its startMs and its   *)
(* reverse flag ever change: startMs only when the object completes in mode *)
(* Reverse or Restart, reverse only when it completes in mode Reverse; in   *)
(* the modes None and Restart reverse is always false.                      *)
C15_OnlyStartMsAndReverse ==
    [][\A n \in Names :
          (exists(n) /\ animations'[n] /= NoAnim
                     /\ animations'[n].id = animations[n].id) =>
             /\ Fixed(animations'[n]) = Fixed(animations[n])
             /\ animations'[n].startMs /= animations[n].startMs =>
                   /\ CompletionOf(animations[n])
                   /\ animations[n].repeatMode \in {Reverse, Restart}
             /\ animations'[n].reverse /= animations[n].reverse =>
                   /\ CompletionOf(animations[n])
                   /\ animations[n].repeatMode = Reverse
             /\ animations[n].repeatMode \in {None, Restart} =>
                   (~animations[n].reverse /\ ~animations'[n].reverse)]_vars

\* a Reverse animation on its reversed leg next to a Restart animation on a
\* later leg: both startMs fields and one reverse flag have changed
C15_Witness ==
    /\ pc = "idle"
    /\ exists("x") /\ exists("y")
    /\ animations["x"].repeatMode = Reverse
    /\ animations["x"].reverse
    /\ animations["x"].startMs > 0
    /\ animations["y"].repeatMode = Restart
    /\ animations["y"].startMs > 0

(* C16: when the callback of a RepeatMode.None animation cancels the        *)
(* animation's own name in the frame in which the animation completes, the  *)
(* onEnd handler of that animation is not called.                           *)
C16_SelfCancelIsSilent ==
    pc = "onEnd" => frame.this.callback /= <<CancelCall(frame.this.name)>>

(* C17: when the callback of a completing RepeatMode.None animation cancels *)
(* its own name and starts a new animation under that name, the new         *)
(* animation is still registered after the completion of the old one.       *)
C17_ReplacementSurvives ==
    (/\ pc = "onEnd"
     /\ frame.this.callback =
           <<CancelCall(frame.this.name), StartCall(frame.this.name, Child)>>)
       => exists(frame.this.name)

\* object i is a registered RepeatMode.None animation whose duration the clock can still cover
OneShot(i) ==
    \E n \in DOMAIN animations :
       /\ animations[n].id = i
       /\ animations[n].repeatMode = None
       /\ animations[n].startMs + animations[n].durationMs <= MaxTime

\* object i has had its progress 1 value delivered and is not registered
Completed(i) == i \in finals /\ \A n \in DOMAIN animations : animations[n].id /= i

\* the running callback waits for an object identity the model has run out of
OutOfIds ==
    /\ pc \in {"callback", "onEnd"}
    /\ script /= <<>>
    /\ Head(script).op = "start"
    /\ ~exists(Head(script).name)
    /\ nextId > MaxStarts

(* C18: a RepeatMode.None animation that is never cancelled completes: when *)
(* the handler keeps being called and the clock passes startMs + durationMs *)
(* its progress 1 value is eventually delivered and it leaves the registry. *)
(* A frame handler that has thrown is not called again.                     *)
C18_OneShotCompletes ==
    \A i \in Ids :
       [](OneShot(i) =>
            <>(\/ Completed(i)
               \/ i \in cancelled \cup stopped
               \/ pc = "crashed"
               \/ OutOfIds))

(* C19: every registered animation has startMs <= now, and the progress     *)
(* computed by update() and the progress handed to the curve (after the     *)
(* flip of a reversed leg) both lie in [0, 1].                              *)
C19_ProgressInUnitInterval ==
    /\ \A n \in Names : exists(n) => animations[n].startMs <= now
    /\ delivered /= NoDelivery =>
          /\ RLeq(Zero, delivered.p) /\ RLeq(delivered.p, One)
          /\ RLeq(Zero, delivered.curve.t) /\ RLeq(delivered.curve.t, One)

\* a reversed leg advanced half way: progress 1/2, handed on as 1 - 1/2
C19_Witness ==
    /\ pc = "callback"
    /\ frame.this.reverse
    /\ frame.this.startMs > 0
    /\ delivered.p = Rat(1, 2)
    /\ delivered.curve.t = Rat(1, 2)

\* the formula fn returns 0 at 0 and 1 at 1, in the arithmetic of t
FixesEnds(fn, t) ==
    IF IsDouble(t)
    THEN REq(formula(fn, D0), Zero) /\ REq(formula(fn, D1), One)
    ELSE REq(formula(fn, Zero), Zero) /\ REq(formula(fn, One), One)

(* C20: for every formula f with f(0) = 0 and f(1) = 1 and all a, b, the    *)
(* curves linear(), easeIn(f), easeOut(f) and easeInOut(f) return exactly a *)
(* at t = 0 and exactly b at t = 1.                                         *)
C20_CurveEndpoints ==
    (/\ probe.kind = "curve"
     /\ probe.done
     /\ (probe.ease = "linear" \/ FixesEnds(probe.fn, probe.t))) =>
        /\ REq(probe.t, Zero) => REq(probe.out, probe.a)
        /\ REq(probe.t, One) => REq(probe.out, probe.b)

====
